---------------------------- MODULE Spec2Model ----------------------------
(***************************************************************************)
(* GeetCode: the session store (stores/auth.ts) and the push engine        *)
(* (stores/submission.ts, here src/unnamed/part_000).                      *)
(*                                                                         *)
(* Every exported async function is a process that runs from one await to  *)
(* the next in one atomic step (single-threaded cooperative scheduling).   *)
(* The host key-value store, the identity endpoint, the content endpoint   *)
(* and the auth collaborator are the environment: each answer is chosen    *)
(* nondeterministically among the answers that endpoint can give.          *)
(***************************************************************************)
EXTENDS Integers, Sequences, FiniteSets, TLC

VARIABLES
    githubToken,       \* auth.ts:8      writable<string | null>
    githubUser,        \* auth.ts:9      writable<GitHubUser | null>
    authLoading,       \* auth.ts:11
    authError,         \* auth.ts:12
    latestSubmission,  \* part_000:6
    pushLoading,       \* part_000:7
    pushError,         \* part_000:8
    pushSuccess,       \* part_000:9
    selectedRepo,      \* ./repos store, read at part_000:39
    store,             \* chrome.storage.local: githubToken, tokenCreatedAt
    remote,            \* content endpoint: path -> file state
    nextSha,           \* next version id the content endpoint hands out
    now,               \* Date.now()
    inv                \* the invocations: one record per process

vars == <<githubToken, githubUser, authLoading, authError, latestSubmission,
          pushLoading, pushError, pushSuccess, selectedRepo, store, remote,
          nextSha, now, inv>>

-----------------------------------------------------------------------------
(* Bounds *)

MaxTicks == 1        \* how many milliseconds the clock advances
MaxSha == 2          \* how many versions the content endpoint creates

-----------------------------------------------------------------------------
(* Values *)

NULL == "null"                 \* JavaScript null
Undefined == -1                \* a missing number (undefined)
NoSha == 0                     \* let sha: string | undefined, unset

TOKEN_REVALIDATION_MS == 7 * 24 * 60 * 60 * 1000

Now0 == TOKEN_REVALIDATION_MS + 2

Tokens == {"t1", "t2"}

Procs == {1, 2}

\* A GitHubUser is identified by the token it was fetched with.
UserOf(token) == token

AuthCheckFailed == "Failed to check authentication status"
AuthSessionExpired == "Session expired. Please sign in again."
OAuthError == "access_denied"
\* auth.ts:102  `Authentication failed: ${response.error}`
AuthFailed(e) == IF e = OAuthError THEN "Authentication failed: access_denied"
                 ELSE "Authentication failed: undefined"

NotAuthenticated == "Not authenticated"
NoRepositorySelected == "No repository selected"
NoSubmission == "No submission to push"
PushSessionExpired == "Session expired - please sign in again"   \* part_000:67 (an em dash there)
PushFailedDefault == "Failed to push to GitHub"
RemoteMessage == "remote message"
FetchFailed == "Failed to fetch"
InvalidCharacter == "InvalidCharacterError"

-----------------------------------------------------------------------------
(* Strings are sequences of one-character strings; code is a sequence of   *)
(* character codes.                                                        *)

SeqMap(F(_), s) == [i \in 1..Len(s) |-> F(s[i])]

\* part_000:51  the character class [\/\\?%*:|"<>]
BadChars == {"/", "\\", "?", "%", "*", ":", "|", "\"", "<", ">"}

SanitizeChar(c) == IF c \in BadChars THEN "-" ELSE c

\* part_000:51  problemTitle.replace(/[\/\\?%*:|"<>]/g, '-')
SafeTitle(title) == SeqMap(SanitizeChar, title)

LowerChar(c) ==
    CASE c = "P" -> "p"
      [] c = "Y" -> "y"
      [] c = "C" -> "c"
      [] OTHER -> c

\* part_000:52  language.toLowerCase()
ToLowerCase(s) == SeqMap(LowerChar, s)

\* part_000:11-28
extensionMap ==
    [l \in {<<"p","y">>, <<"c","p","p">>, <<"c">>, <<"g","o">>} |->
        CASE l = <<"p","y">> -> <<"p","y">>
          [] l = <<"c","p","p">> -> <<"c","+","+">>
          [] l = <<"c">> -> <<"c">>
          [] l = <<"g","o">> -> <<"g","o">>]

\* part_000:53  extensionMap[language] || 'txt'
Ext(language) ==
    IF language \in DOMAIN extensionMap THEN extensionMap[language]
    ELSE <<"t","x","t">>

\* part_000:51-54
FilePath(submission) ==
    SafeTitle(submission.problemTitle) \o <<".">>
        \o Ext(ToLowerCase(submission.language))

\* part_000:55  commitMessage || `${safeTitle} Solved`
Message(commitMessage, submission) ==
    IF commitMessage = <<>>
    THEN SafeTitle(submission.problemTitle) \o <<" ", "Solved">>
    ELSE commitMessage

\* btoa: base64 over sextets 0..63, 64 is the padding '='; 65 is '\n'.
Pad == 64
Newline == 65

RECURSIVE Base64(_)
Base64(b) ==
    IF Len(b) = 0 THEN <<>>
    ELSE IF Len(b) = 1
    THEN <<b[1] \div 4, (b[1] % 4) * 16, Pad, Pad>>
    ELSE IF Len(b) = 2
    THEN <<b[1] \div 4, (b[1] % 4) * 16 + (b[2] \div 16), (b[2] % 16) * 4, Pad>>
    ELSE <<b[1] \div 4, (b[1] % 4) * 16 + (b[2] \div 16),
           (b[2] % 16) * 4 + (b[3] \div 64), b[3] % 64>>
         \o Base64(SubSeq(b, 4, Len(b)))

\* btoa throws InvalidCharacterError on a character outside Latin-1.
BtoaThrows(code) == \E i \in 1..Len(code) : code[i] > 255

\* part_000:76,90  btoa(submission.code)
Btoa(code) == Base64(code)

\* part_000:75  existing.content?.replace(/\n/g, '')
StripNewlines(s) == SelectSeq(s, LAMBDA c : c # Newline)

\* The content endpoint returns base64 in lines of 60 characters, each
\* ended by a newline.
RemoteLineLen == 60

RECURSIVE WrapLines(_)
WrapLines(s) ==
    IF Len(s) = 0 THEN <<>>
    ELSE IF Len(s) <= RemoteLineLen THEN s \o <<Newline>>
    ELSE SubSeq(s, 1, RemoteLineLen) \o <<Newline>>
         \o WrapLines(SubSeq(s, RemoteLineLen + 1, Len(s)))

-----------------------------------------------------------------------------
(* The data the operations are run on *)

NoSubmissionData == [problemTitle |-> <<>>, language |-> <<>>, code |-> <<>>]

Submissions ==
    { [problemTitle |-> <<"A", "/">>, language |-> <<"P", "Y">>, code |-> <<77>>],
      [problemTitle |-> <<"A", "/">>, language |-> <<"p", "y">>, code |-> <<77, 255>>],
      [problemTitle |-> <<"B">>, language |-> <<"h", "s">>, code |-> <<300>>] }

Paths == {FilePath(s) : s \in Submissions}

\* commitMessage?: string; <<>> stands for an omitted (or empty) message
CommitMessages == {<<>>, <<"fix">>}

Repos == {"owner/repo"}

\* A file of the content endpoint; pushed tells whether pushToGitHub wrote it.
Absent == [exists |-> FALSE, sha |-> NoSha, content |-> <<>>, pushed |-> FALSE]

Foreign == [exists |-> TRUE, sha |-> 1, content |-> Base64(<<1>>), pushed |-> FALSE]

NetErr == -2                   \* fetch rejects: no response

IsOk(status) == status >= 200 /\ status <= 299

\* The answers the identity endpoint can give.
IdentityAnswers == {200, 401, 500, NetErr}

\* The answers the content endpoint can give to a read of a file.
ReadAnswers(file) ==
    {401, 403, 500, NetErr} \cup (IF file.exists THEN {200} ELSE {404})

\* The body of a write request; sha is NoSha when the key is left out.
NoPut == [path |-> <<>>, message |-> <<>>, content |-> <<>>, sha |-> NoSha]

\* As PutBody, without the sha (part_000:92).
PutBody_NoSha(path, message, code, sha) ==
    [path |-> path, message |-> message, content |-> Btoa(code), sha |-> NoSha]

\* part_000:88-93  JSON.stringify({message, content, branch, ...(sha && {sha})})
PutBody(path, message, code, sha) ==
    [path |-> path, message |-> message, content |-> Btoa(code), sha |-> sha]

\* The content endpoint accepts a write when the sha names the current
\* version of an existing file, or the file is absent and no sha is given.
WriteAccepted(file, body) ==
    IF file.exists THEN body.sha = file.sha ELSE body.sha = NoSha

EmptyStore == [githubToken |-> NULL, tokenCreatedAt |-> Undefined]

\* lib/storage clearAuth(): removes the credential from the persistent store.
clearAuth(st) == EmptyStore

\* The auth collaborator persists the credential it hands out.
PersistCredential(st, token, at) == [githubToken |-> token, tokenCreatedAt |-> at]

-----------------------------------------------------------------------------
(* Invocations *)

IdleInv ==
    [op |-> "none", pc |-> "idle",
     tok |-> NULL,                 \* token / storedToken / response.token
     sub |-> NoSubmissionData,     \* submission
     msg |-> <<>>,                 \* message
     createdAt |-> Undefined,      \* tokenCreatedAt as read
     at |-> Undefined,             \* Date.now() at auth.ts:22
     sha |-> NoSha,                \* sha
     reqs |-> <<>>,                \* the remote requests issued, in order
     put |-> NoPut,                \* the body of the write request
     session |-> NULL,             \* githubToken when the write was issued
     readStatus |-> 0,             \* existingResponse.status
     writeStatus |-> 0,            \* response.status
     verifyStatus |-> 0,           \* verifyToken's response.status
     userStatus |-> 0,             \* fetchUserInfo's response.status
     stamp |-> Undefined,          \* Date.now() at auth.ts:29
     outcome |-> "none",           \* "true", "false", "void" or "threw"
     error |-> NULL]               \* the error thrown

Start(op, pc) == [IdleInv EXCEPT !.op = op, !.pc = pc]

CanStart(p) == inv[p].pc \in {"idle", "done"}

Ended(r, outcome, error) ==
    [r EXCEPT !.pc = "done", !.outcome = outcome, !.error = error]

-----------------------------------------------------------------------------
(* stores/auth.ts *)

\* auth.ts:22-23
Falsy(n) == n = Undefined \/ n = 0

TokenAge(tokenCreatedAt, time) ==
    time - (IF Falsy(tokenCreatedAt) THEN 0 ELSE tokenCreatedAt)

\* As NeedsRevalidation, with the freshness window ignored (auth.ts:23).
NeedsRevalidation_Always(tokenCreatedAt, time) == TRUE

\* As NeedsRevalidation, with >= for > (auth.ts:23).
NeedsRevalidation_AtBoundary(tokenCreatedAt, time) ==
    Falsy(tokenCreatedAt) \/ TokenAge(tokenCreatedAt, time) >= TOKEN_REVALIDATION_MS

NeedsRevalidation(tokenCreatedAt, time) ==
    Falsy(tokenCreatedAt) \/ TokenAge(tokenCreatedAt, time) > TOKEN_REVALIDATION_MS

\* As VerifyToken, with the response taken as valid whatever its status
\* (auth.ts:64).
VerifyToken_AnyResponse(status) == status # NetErr

\* As VerifyToken, with true for false in the catch block (auth.ts:67).
VerifyToken_TrustsUnreachable(status) == IsOk(status) \/ status = NetErr

\* auth.ts:56-69  verifyToken: response.ok, false when fetch rejects
VerifyToken(status) == IsOk(status)

\* auth.ts:14-16
CheckAuthStatus_Begin(p) ==
    /\ CanStart(p)
    /\ authLoading' = TRUE
    /\ authError' = NULL
    /\ inv' = [inv EXCEPT ![p] = Start("checkAuthStatus", "get")]
    /\ UNCHANGED <<githubToken, githubUser, latestSubmission, pushLoading,
                   pushError, pushSuccess, selectedRepo, store, remote,
                   nextSha, now>>

\* auth.ts:40-45  catch and finally
CheckAuthStatus_Catch(p) ==
    /\ authError' = AuthCheckFailed
    /\ authLoading' = FALSE
    /\ inv' = [inv EXCEPT ![p] = Ended(@, "void", NULL)]

\* auth.ts:19-25 and 35-38, 43-45: chrome.storage.local.get has answered
CheckAuthStatus_Get(p) ==
    /\ inv[p].op = "checkAuthStatus" /\ inv[p].pc = "get"
    /\ \/ /\ CheckAuthStatus_Catch(p)
          /\ UNCHANGED githubToken
       \/ LET storedToken == store.githubToken
              tokenCreatedAt == store.tokenCreatedAt
              r == [inv[p] EXCEPT !.tok = storedToken,
                                  !.createdAt = tokenCreatedAt, !.at = now]
          IN IF storedToken = NULL
             THEN /\ authLoading' = FALSE
                  /\ inv' = [inv EXCEPT ![p] = Ended(r, "void", NULL)]
                  /\ UNCHANGED <<githubToken, authError>>
             ELSE IF NeedsRevalidation(tokenCreatedAt, now)
             THEN /\ inv' = [inv EXCEPT ![p] =
                        [r EXCEPT !.pc = "verify", !.reqs = Append(@, "verify")]]
                  /\ UNCHANGED <<githubToken, authLoading, authError>>
             ELSE /\ githubToken' = storedToken
                  /\ inv' = [inv EXCEPT ![p] =
                        [r EXCEPT !.pc = "fetch", !.reqs = Append(@, "user")]]
                  /\ UNCHANGED <<authLoading, authError>>
    /\ UNCHANGED <<githubUser, latestSubmission, pushLoading, pushError,
                   pushSuccess, selectedRepo, store, remote, nextSha, now>>

\* As CheckAuthStatus_Verify, with githubToken.set(storedToken) moved before
\* the await of chrome.storage.local.set (auth.ts:29-30 swapped).
CheckAuthStatus_Verify_ExposesEarly(p) ==
    /\ inv[p].op = "checkAuthStatus" /\ inv[p].pc = "verify"
    /\ \E status \in IdentityAnswers :
          /\ inv' = [inv EXCEPT ![p] =
                    IF VerifyToken(status)
                    THEN [@ EXCEPT !.verifyStatus = status, !.pc = "set",
                                   !.stamp = now]
                    ELSE [@ EXCEPT !.verifyStatus = status, !.pc = "clear"]]
          /\ githubToken' = IF VerifyToken(status) THEN inv[p].tok ELSE githubToken
    /\ UNCHANGED <<githubUser, authLoading, authError,
                   latestSubmission, pushLoading, pushError, pushSuccess,
                   selectedRepo, store, remote, nextSha, now>>

\* auth.ts:26-34: verifyToken has answered
CheckAuthStatus_Verify(p) ==
    /\ inv[p].op = "checkAuthStatus" /\ inv[p].pc = "verify"
    /\ \E status \in IdentityAnswers :
          inv' = [inv EXCEPT ![p] =
                    IF VerifyToken(status)
                    THEN [@ EXCEPT !.verifyStatus = status, !.pc = "set",
                                   !.stamp = now]
                    ELSE [@ EXCEPT !.verifyStatus = status, !.pc = "clear"]]
    /\ UNCHANGED <<githubToken, githubUser, authLoading, authError,
                   latestSubmission, pushLoading, pushError, pushSuccess,
                   selectedRepo, store, remote, nextSha, now>>

\* auth.ts:29-31: chrome.storage.local.set({tokenCreatedAt: Date.now()}) has answered
CheckAuthStatus_Set(p) ==
    /\ inv[p].op = "checkAuthStatus" /\ inv[p].pc = "set"
    /\ \/ /\ CheckAuthStatus_Catch(p)
          /\ UNCHANGED <<githubToken, store>>
       \/ /\ store' = [store EXCEPT !.tokenCreatedAt = inv[p].stamp]
          /\ githubToken' = inv[p].tok
          /\ inv' = [inv EXCEPT ![p] =
                [@ EXCEPT !.pc = "fetch", !.reqs = Append(@, "user")]]
          /\ UNCHANGED <<authLoading, authError>>
    /\ UNCHANGED <<githubUser, latestSubmission, pushLoading, pushError,
                   pushSuccess, selectedRepo, remote, nextSha, now>>

\* auth.ts:71-87 fetchUserInfo has answered; then auth.ts:43-45 or auth.ts:100
FetchUserInfo(p) ==
    /\ inv[p].op \in {"checkAuthStatus", "authenticate"} /\ inv[p].pc = "fetch"
    /\ \E status \in IdentityAnswers :
          /\ githubUser' = IF IsOk(status) THEN UserOf(inv[p].tok) ELSE githubUser
          /\ inv' = [inv EXCEPT ![p] =
                Ended([@ EXCEPT !.userStatus = status], "void", NULL)]
    /\ authLoading' = IF inv[p].op = "checkAuthStatus" THEN FALSE ELSE authLoading
    /\ UNCHANGED <<githubToken, authError, latestSubmission, pushLoading,
                   pushError, pushSuccess, selectedRepo, store, remote,
                   nextSha, now>>

\* As handleInvalidToken, without the await of clearAuth (auth.ts:50).
handleInvalidToken_KeepsStore ==
    /\ UNCHANGED store
    /\ githubToken' = NULL
    /\ githubUser' = NULL
    /\ authError' = AuthSessionExpired

\* As handleInvalidToken, without githubUser.set(null) (auth.ts:52).
handleInvalidToken_KeepsUser ==
    /\ store' = clearAuth(store)
    /\ githubToken' = NULL
    /\ UNCHANGED githubUser
    /\ authError' = AuthSessionExpired

\* auth.ts:49-54  handleInvalidToken, once clearAuth has answered
handleInvalidToken ==
    /\ store' = clearAuth(store)
    /\ githubToken' = NULL
    /\ githubUser' = NULL
    /\ authError' = AuthSessionExpired

\* auth.ts:33 then 43-45
CheckAuthStatus_Invalid(p) ==
    /\ inv[p].op = "checkAuthStatus" /\ inv[p].pc = "clear"
    /\ handleInvalidToken
    /\ authLoading' = FALSE
    /\ inv' = [inv EXCEPT ![p] = Ended(@, "void", NULL)]
    /\ UNCHANGED <<latestSubmission, pushLoading, pushError, pushSuccess,
                   selectedRepo, remote, nextSha, now>>

\* auth.ts:89-94
Authenticate_Begin(p) ==
    /\ CanStart(p)
    /\ authLoading' = TRUE
    /\ authError' = NULL
    /\ inv' = [inv EXCEPT ![p] = Start("authenticate", "msg")]
    /\ UNCHANGED <<githubToken, githubUser, latestSubmission, pushLoading,
                   pushError, pushSuccess, selectedRepo, store, remote,
                   nextSha, now>>

\* auth.ts:94-99: the collaborator answers {success: true, token}
Authenticate_Success(p) ==
    /\ inv[p].op = "authenticate" /\ inv[p].pc = "msg"
    /\ \E token \in Tokens :
          /\ store' = PersistCredential(store, token, now)
          /\ githubToken' = token
          /\ inv' = [inv EXCEPT ![p] =
                [@ EXCEPT !.tok = token, !.pc = "fetch", !.reqs = Append(@, "user")]]
    /\ authLoading' = FALSE
    /\ UNCHANGED <<githubUser, authError, latestSubmission, pushLoading,
                   pushError, pushSuccess, selectedRepo, remote, nextSha, now>>

\* As Authenticate_Failure, with the session signed out on failure
\* (githubToken.set(null) added at auth.ts:102).
Authenticate_Failure_SignsOut(p) ==
    /\ inv[p].op = "authenticate" /\ inv[p].pc = "msg"
    /\ authLoading' = FALSE
    /\ authError' = AuthFailed(OAuthError)
    /\ githubToken' = NULL
    /\ inv' = [inv EXCEPT ![p] = Ended(@, "threw", OAuthError)]
    /\ UNCHANGED <<githubUser, latestSubmission, pushLoading,
                   pushError, pushSuccess, selectedRepo, store, remote,
                   nextSha, now>>

\* auth.ts:94-95, 101-104: the collaborator answers {success: false, error}
Authenticate_Failure(p) ==
    /\ inv[p].op = "authenticate" /\ inv[p].pc = "msg"
    /\ authLoading' = FALSE
    /\ authError' = AuthFailed(OAuthError)
    /\ inv' = [inv EXCEPT ![p] = Ended(@, "threw", OAuthError)]
    /\ UNCHANGED <<githubToken, githubUser, latestSubmission, pushLoading,
                   pushError, pushSuccess, selectedRepo, store, remote,
                   nextSha, now>>

\* auth.ts:109-110
Disconnect_Begin(p) ==
    /\ CanStart(p)
    /\ inv' = [inv EXCEPT ![p] = Start("disconnect", "clear")]
    /\ UNCHANGED <<githubToken, githubUser, authLoading, authError,
                   latestSubmission, pushLoading, pushError, pushSuccess,
                   selectedRepo, store, remote, nextSha, now>>

\* As Disconnect_Done, without githubUser.set(null) (auth.ts:112).
Disconnect_Done_KeepsUser(p) ==
    /\ inv[p].op = "disconnect" /\ inv[p].pc = "clear"
    /\ store' = clearAuth(store)
    /\ githubToken' = NULL
    /\ inv' = [inv EXCEPT ![p] = Ended(@, "void", NULL)]
    /\ UNCHANGED <<githubUser, authLoading, authError, latestSubmission,
                   pushLoading, pushError, pushSuccess, selectedRepo, remote,
                   nextSha, now>>

\* auth.ts:110-113: clearAuth has answered
Disconnect_Done(p) ==
    /\ inv[p].op = "disconnect" /\ inv[p].pc = "clear"
    /\ store' = clearAuth(store)
    /\ githubToken' = NULL
    /\ githubUser' = NULL
    /\ inv' = [inv EXCEPT ![p] = Ended(@, "void", NULL)]
    /\ UNCHANGED <<authLoading, authError, latestSubmission, pushLoading,
                   pushError, pushSuccess, selectedRepo, remote, nextSha, now>>

-----------------------------------------------------------------------------
(* stores/submission.ts (src/unnamed/part_000) *)

\* part_000:30-35  loadLatestSubmission, with the value the host store holds
LoadLatestSubmission ==
    /\ \E stored \in Submissions \cup {NoSubmissionData} :
          latestSubmission' = IF stored # NoSubmissionData THEN stored
                              ELSE latestSubmission
    /\ UNCHANGED <<githubToken, githubUser, authLoading, authError,
                   pushLoading, pushError, pushSuccess, selectedRepo, store,
                   remote, nextSha, now, inv>>

\* As Precondition, with the checks of part_000:42 and 43 in the other order.
Precondition_RepoFirst(token, repo, submission) ==
    IF repo = NULL THEN NoRepositorySelected
    ELSE IF token = NULL THEN NotAuthenticated
    ELSE IF submission = NoSubmissionData THEN NoSubmission
    ELSE NULL

\* part_000:42-44  the error of the first precondition that fails, or NULL
Precondition(token, repo, submission) ==
    IF token = NULL THEN NotAuthenticated
    ELSE IF repo = NULL THEN NoRepositorySelected
    ELSE IF submission = NoSubmissionData THEN NoSubmission
    ELSE NULL

\* part_000:37-64
PushToGitHub_Begin(p) ==
    /\ CanStart(p)
    /\ \E commitMessage \in CommitMessages :
        LET token == githubToken
            repo == selectedRepo
            submission == latestSubmission
            failed == Precondition(token, repo, submission)
        IN IF failed # NULL
           THEN /\ inv' = [inv EXCEPT ![p] =
                      Ended(Start("pushToGitHub", "done"), "threw", failed)]
                /\ UNCHANGED <<pushLoading, pushError, pushSuccess>>
           ELSE /\ pushLoading' = TRUE
                /\ pushError' = NULL
                /\ pushSuccess' = FALSE
                /\ inv' = [inv EXCEPT ![p] =
                      [Start("pushToGitHub", "read") EXCEPT
                          !.tok = token, !.sub = submission,
                          !.msg = Message(commitMessage, submission),
                          !.reqs = <<"GET">>]]
    /\ UNCHANGED <<githubToken, githubUser, authLoading, authError,
                   latestSubmission, selectedRepo, store, remote, nextSha, now>>

\* As PushToGitHub_Catch, without the finally block (part_000:112-114).
PushToGitHub_Catch_NoFinally(p, r, message) ==
    /\ pushError' = message
    /\ UNCHANGED pushLoading
    /\ inv' = [inv EXCEPT ![p] = Ended(r, "threw", message)]

\* part_000:108-114  catch and finally
PushToGitHub_Catch(p, r, message) ==
    /\ pushError' = message
    /\ pushLoading' = FALSE
    /\ inv' = [inv EXCEPT ![p] = Ended(r, "threw", message)]

\* As PushToGitHub_Put, with the session token read again before the write.
PushToGitHub_Put_Guarded(p, r) ==
    IF githubToken = NULL
    THEN /\ PushToGitHub_Catch(p, r, NotAuthenticated)
         /\ UNCHANGED pushSuccess
    ELSE IF BtoaThrows(r.sub.code)
    THEN /\ PushToGitHub_Catch(p, r, InvalidCharacter)
         /\ UNCHANGED pushSuccess
    ELSE /\ inv' = [inv EXCEPT ![p] =
               [r EXCEPT !.pc = "write", !.reqs = Append(@, "PUT"),
                         !.session = githubToken,
                         !.put = PutBody(FilePath(r.sub), r.msg, r.sub.code, r.sha)]]
         /\ UNCHANGED <<pushLoading, pushError, pushSuccess>>

\* part_000:82-94  the write request is issued (btoa may throw first); the
\* token is the one read at part_000:38, whatever githubToken holds by now
PushToGitHub_Put(p, r) ==
    IF BtoaThrows(r.sub.code)
    THEN /\ PushToGitHub_Catch(p, r, InvalidCharacter)
         /\ UNCHANGED pushSuccess
    ELSE /\ inv' = [inv EXCEPT ![p] =
               [r EXCEPT !.pc = "write", !.reqs = Append(@, "PUT"),
                         !.session = githubToken,
                         !.put = PutBody(FilePath(r.sub), r.msg, r.sub.code, r.sha)]]
         /\ UNCHANGED <<pushLoading, pushError, pushSuccess>>

\* As SameContent, without the removal of the newlines (part_000:75).
SameContent_KeepsNewlines(content, code) == content = Btoa(code)

\* part_000:75-76  the remote content is the same as the submission's code
SameContent(content, code) == StripNewlines(content) = Btoa(code)

\* As Unauthorized, with the 401 check left out.
Unauthorized_Never(status) == FALSE

\* part_000:65, 96  response.status === 401
Unauthorized(status) == status = 401

\* part_000:59-94, 108-114: the read of the file has answered
PushToGitHub_Read(p) ==
    /\ inv[p].op = "pushToGitHub" /\ inv[p].pc = "read"
    /\ LET file == remote[FilePath(inv[p].sub)]
       IN \E status \in ReadAnswers(file) :
          LET r == [inv[p] EXCEPT !.readStatus = status]
          IN IF status = NetErr
             THEN /\ PushToGitHub_Catch(p, r, FetchFailed)
                  /\ UNCHANGED pushSuccess
             ELSE IF Unauthorized(status)
             THEN /\ inv' = [inv EXCEPT ![p] = [r EXCEPT !.pc = "clear"]]
                  /\ UNCHANGED <<pushLoading, pushError, pushSuccess>>
             ELSE IF IsOk(status)
             THEN LET found == [r EXCEPT !.sha = file.sha]
                  IN IF BtoaThrows(r.sub.code)
                     THEN /\ PushToGitHub_Catch(p, found, InvalidCharacter)
                          /\ UNCHANGED pushSuccess
                     ELSE IF SameContent(WrapLines(file.content), r.sub.code)
                     THEN /\ pushSuccess' = TRUE
                          /\ pushLoading' = FALSE
                          /\ inv' = [inv EXCEPT ![p] = Ended(found, "false", NULL)]
                          /\ UNCHANGED pushError
                     ELSE PushToGitHub_Put(p, found)
             ELSE PushToGitHub_Put(p, r)
    /\ UNCHANGED <<githubToken, githubUser, authLoading, authError,
                   latestSubmission, selectedRepo, store, remote, nextSha, now>>

\* The answers the content endpoint can give to a write: a status and
\* whether the error body carries a message.
WriteAnswers ==
    {<<NetErr, FALSE>>, <<401, FALSE>>, <<403, TRUE>>, <<500, FALSE>>,
     <<200, FALSE>>, <<409, TRUE>>}

\* part_000:96-114: the write has answered
PushToGitHub_Write(p) ==
    /\ inv[p].op = "pushToGitHub" /\ inv[p].pc = "write"
    /\ LET body == inv[p].put
           file == remote[body.path]
       IN \E answer \in WriteAnswers :
          LET status == answer[1]
              r == [inv[p] EXCEPT !.writeStatus = status]
          IN /\ IsOk(status) => WriteAccepted(file, body) /\ nextSha <= MaxSha
             /\ status = 409 => ~WriteAccepted(file, body)
             /\ IF IsOk(status)
                THEN /\ remote' = [remote EXCEPT ![body.path] =
                            [exists |-> TRUE, sha |-> nextSha,
                             content |-> body.content, pushed |-> TRUE]]
                     /\ nextSha' = nextSha + 1
                     /\ pushSuccess' = TRUE
                     /\ pushLoading' = FALSE
                     /\ inv' = [inv EXCEPT ![p] = Ended(r, "true", NULL)]
                     /\ UNCHANGED pushError
                ELSE /\ UNCHANGED <<remote, nextSha, pushSuccess>>
                     /\ IF status = NetErr
                        THEN PushToGitHub_Catch(p, r, FetchFailed)
                        ELSE IF Unauthorized(status)
                        THEN /\ inv' = [inv EXCEPT ![p] = [r EXCEPT !.pc = "clear"]]
                             /\ UNCHANGED <<pushLoading, pushError>>
                        ELSE PushToGitHub_Catch(p, r,
                                IF answer[2] THEN RemoteMessage ELSE PushFailedDefault)
    /\ UNCHANGED <<githubToken, githubUser, authLoading, authError,
                   latestSubmission, selectedRepo, store, now>>

\* part_000:66-67 and 97-98, then 108-114: handleInvalidToken has answered
PushToGitHub_Invalid(p) ==
    /\ inv[p].op = "pushToGitHub" /\ inv[p].pc = "clear"
    /\ handleInvalidToken
    /\ PushToGitHub_Catch(p, inv[p], PushSessionExpired)
    /\ UNCHANGED <<authLoading, latestSubmission, pushSuccess, selectedRepo,
                   remote, nextSha, now>>

-----------------------------------------------------------------------------
(* The environment *)

\* ./repos: the user selects a repository, or none
SelectRepo ==
    /\ \E repo \in Repos \cup {NULL} : repo # selectedRepo /\ selectedRepo' = repo
    /\ UNCHANGED <<githubToken, githubUser, authLoading, authError,
                   latestSubmission, pushLoading, pushError, pushSuccess,
                   store, remote, nextSha, now, inv>>

\* Date.now() advances
Tick ==
    /\ now < Now0 + MaxTicks
    /\ now' = now + 1
    /\ UNCHANGED <<githubToken, githubUser, authLoading, authError,
                   latestSubmission, pushLoading, pushError, pushSuccess,
                   selectedRepo, store, remote, nextSha, inv>>

-----------------------------------------------------------------------------
(* Specifications *)

\* The creation timestamps a store may hold at start-up.
InitialCreatedAt ==
    {Undefined, Now0 - TOKEN_REVALIDATION_MS - 1, Now0 - TOKEN_REVALIDATION_MS,
     Now0 - TOKEN_REVALIDATION_MS + 1}

Init ==
    /\ githubToken = NULL
    /\ githubUser = NULL
    /\ authLoading = TRUE
    /\ authError = NULL
    /\ latestSubmission = NoSubmissionData
    /\ pushLoading = FALSE
    /\ pushError = NULL
    /\ pushSuccess = FALSE
    /\ selectedRepo = NULL
    /\ \/ store = EmptyStore
       \/ \E c \in InitialCreatedAt : store = [githubToken |-> "t1", tokenCreatedAt |-> c]
    /\ \E path \in Paths : \E f \in {Absent, Foreign} :
          remote = [q \in Paths |-> IF q = path THEN f ELSE Absent]
    /\ nextSha = Foreign.sha + 1
    /\ now = Now0
    /\ inv = [p \in Procs |-> IdleInv]

Step(p) ==
    \/ CheckAuthStatus_Begin(p)
    \/ CheckAuthStatus_Get(p)
    \/ CheckAuthStatus_Verify(p)
    \/ CheckAuthStatus_Set(p)
    \/ CheckAuthStatus_Invalid(p)
    \/ FetchUserInfo(p)
    \/ Authenticate_Begin(p)
    \/ Authenticate_Success(p)
    \/ Authenticate_Failure(p)
    \/ Disconnect_Begin(p)
    \/ Disconnect_Done(p)
    \/ PushToGitHub_Begin(p)
    \/ PushToGitHub_Read(p)
    \/ PushToGitHub_Write(p)
    \/ PushToGitHub_Invalid(p)

Environment == LoadLatestSubmission \/ SelectRepo \/ Tick

\* One invocation at a time.
Next == Step(1) \/ Environment

Spec == Init /\ [][Next]_vars

\* Overlapping invocations: a session restored from a stored credential
\* without timestamp, a repository selected and a submission loaded.
InitOverlap ==
    /\ githubToken = NULL
    /\ githubUser = NULL
    /\ authLoading = TRUE
    /\ authError = NULL
    /\ latestSubmission \in {sub \in Submissions : sub.code = <<77>>}
    /\ pushLoading = FALSE
    /\ pushError = NULL
    /\ pushSuccess = FALSE
    /\ selectedRepo \in Repos
    /\ store = [githubToken |-> "t1", tokenCreatedAt |-> Undefined]
    /\ remote = [q \in Paths |-> Absent]
    /\ nextSha = Foreign.sha + 1
    /\ now = Now0
    /\ inv = [p \in Procs |-> IdleInv]

\* What the second process runs while the first runs any operation.
Overlapping(p) ==
    \/ Disconnect_Begin(p)
    \/ Disconnect_Done(p)
    \/ PushToGitHub_Begin(p)
    \/ PushToGitHub_Read(p)
    \/ PushToGitHub_Write(p)
    \/ PushToGitHub_Invalid(p)

NextOverlap == Step(1) \/ Overlapping(2)

\* Two invocations interleaved at their awaits.
SpecOverlap == InitOverlap /\ [][NextOverlap]_vars

-----------------------------------------------------------------------------
(* Properties *)

Push(p) == inv[p].op = "pushToGitHub"

\* The remote file of p's submission holds that submission's code, written
\* there by a push.
UpToDate(p) ==
    LET file == remote[FilePath(inv[p].sub)]
    IN file.exists /\ file.pushed /\ file.content = Base64(inv[p].sub.code)

\* In this step the read of push p is answered.
ReadAnswered(p) == Push(p) /\ inv[p].pc = "read" /\ inv'[p].pc # "read"

NoOp(p) ==
    /\ inv'[p].pc = "done" /\ inv'[p].outcome = "false"
    /\ inv'[p].reqs = <<"GET">>
    /\ pushError' = pushError

\* C1 as stated: a push of a submission whose code an earlier push wrote to
\* the remote path, unchanged since, returns false after exactly one read and
\* no write, and does not set pushError.
C1_Idempotent ==
    [][\A p \in Procs : ReadAnswered(p) /\ UpToDate(p) => NoOp(p)]_vars

\* C1 amended: as C1, when the read of the second push is answered with
\* success (2xx).
C1_IdempotentWhenReadOk ==
    [][\A p \in Procs :
          ReadAnswered(p) /\ UpToDate(p) /\ IsOk(inv'[p].readStatus) => NoOp(p)]_vars

C1_Witness ==
    \E p \in Procs :
        /\ Push(p) /\ inv[p].pc = "done" /\ inv[p].outcome = "false"
        /\ UpToDate(p) /\ pushSuccess /\ pushError = NULL

Got401(p) == inv[p].readStatus = 401 \/ inv[p].writeStatus = 401

\* C2: a push whose read or write was answered 401 ends with githubToken
\* null, the persistent store cleared, and the session-expired error thrown
\* and shown in pushError; it returns neither true nor false.
C2_RejectionPropagates ==
    \A p \in Procs :
        Push(p) /\ inv[p].pc = "done" /\ Got401(p) =>
            /\ githubToken = NULL
            /\ store.githubToken = NULL /\ store.tokenCreatedAt = Undefined
            /\ inv[p].outcome = "threw"
            /\ inv[p].error = PushSessionExpired
            /\ pushError = PushSessionExpired

C2_Witness ==
    \E p \in Procs :
        /\ Push(p) /\ inv[p].pc = "done" /\ inv[p].writeStatus = 401
        /\ inv[p].tok # NULL /\ githubToken = NULL

\* C3: a push whose read was answered 401 issues no write, at any time.
C3_NoWriteAfterRejectedRead ==
    \A p \in Procs :
        Push(p) /\ inv[p].readStatus = 401 =>
            /\ inv[p].reqs = <<"GET">>
            /\ inv[p].put = NoPut
            /\ inv[p].pc \in {"clear", "done"}

C3_Witness ==
    \E p \in Procs :
        Push(p) /\ inv[p].readStatus = 401 /\ inv[p].pc = "done"
                /\ githubToken = NULL

\* In this step handleInvalidToken, called by invocation p, completes.
InvalidationCompletes(p) ==
    /\ inv[p].op \in {"checkAuthStatus", "pushToGitHub"}
    /\ inv[p].pc = "clear" /\ inv'[p].pc # "clear"

\* C4: when handleInvalidToken completes, githubToken and githubUser are
\* null and the persistent store holds no token.
C4_InvalidationPostcondition ==
    [][\A p \in Procs :
          InvalidationCompletes(p) =>
              githubToken' = NULL /\ githubUser' = NULL /\ store'.githubToken = NULL]_vars

\* An invalidation has completed that had a token, a profile and a stored
\* credential to clear.
C4_Witness ==
    \E p \in Procs :
        /\ inv[p].op = "checkAuthStatus" /\ inv[p].pc = "done"
        /\ inv[p].verifyStatus = 401 /\ inv[p].tok # NULL
        /\ githubToken = NULL /\ githubUser = NULL /\ store = EmptyStore
        /\ authError = AuthSessionExpired

Revalidated(p) == inv[p].reqs # <<>> /\ inv[p].reqs[1] = "verify"

\* checkAuthStatus p has read a stored token.
FoundStoredToken(p) == inv[p].op = "checkAuthStatus" /\ inv[p].tok # NULL

SevenDays == 7 * 24 * 60 * 60 * 1000

\* C5: checkAuthStatus revalidates a stored token if and only if its
\* creation timestamp is missing or more than 7 days before now: it does at
\* 7 days and 1 ms, it does not at 7 days nor at 7 days less 1 ms.
C5_FreshnessBoundary ==
    \A p \in Procs :
        FoundStoredToken(p) =>
            /\ Revalidated(p) <=>
                   (inv[p].createdAt = Undefined
                        \/ inv[p].at - inv[p].createdAt > SevenDays)
            /\ inv[p].createdAt = inv[p].at - SevenDays - 1 => Revalidated(p)
            /\ inv[p].createdAt = inv[p].at - SevenDays + 1 => ~Revalidated(p)
            /\ inv[p].createdAt = inv[p].at - SevenDays => ~Revalidated(p)

\* A token exactly 7 days old was exposed without revalidation.
C5_Witness ==
    \E p \in Procs :
        /\ FoundStoredToken(p) /\ inv[p].pc = "done"
        /\ inv[p].createdAt = inv[p].at - SevenDays
        /\ inv[p].reqs = <<"user">> /\ githubToken = inv[p].tok

\* C6: a write request carries a sha if and only if the read of the same
\* invocation found the file, and then it is the sha that read returned.
C6_ShaFromOwnRead ==
    [][\A p \in Procs :
          ReadAnswered(p) /\ inv'[p].pc = "write" =>
              LET file == remote[FilePath(inv[p].sub)]
                  found == IsOk(inv'[p].readStatus)
              IN /\ inv'[p].reqs = <<"GET", "PUT">>
                 /\ inv'[p].put.sha # NoSha <=> found
                 /\ found => file.exists /\ inv'[p].put.sha = file.sha]_vars

\* A write carries the sha that an earlier push created.
C6_Witness ==
    \E p \in Procs :
        /\ Push(p) /\ inv[p].pc = "write"
        /\ remote[inv[p].put.path].pushed
        /\ inv[p].put.sha = remote[inv[p].put.path].sha
        /\ inv[p].put.sha > Foreign.sha

\* In this step invocation p of pushToGitHub starts.
PushStarts(p) == CanStart(p) /\ Push(p)' /\ inv'[p] # inv[p]

\* The push is refused with this error: no request, no session cell changed.
Refused(p, error) ==
    /\ inv'[p].pc = "done" /\ inv'[p].outcome = "threw" /\ inv'[p].error = error
    /\ inv'[p].reqs = <<>> /\ inv'[p].put = NoPut
    /\ UNCHANGED <<pushLoading, pushError, pushSuccess, githubToken>>

\* C7: pushToGitHub checks token, repository, submission in this order; the
\* first that fails raises its own error, with no request issued and no
\* session cell changed.
C7_Preconditions ==
    [][\A p \in Procs :
          PushStarts(p) =>
              /\ githubToken = NULL => Refused(p, NotAuthenticated)
              /\ githubToken # NULL /\ selectedRepo = NULL
                    => Refused(p, NoRepositorySelected)
              /\ githubToken # NULL /\ selectedRepo # NULL
                    /\ latestSubmission = NoSubmissionData
                    => Refused(p, NoSubmission)]_vars

\* The repository check fails before the submission check.
C7_Witness ==
    \E p \in Procs :
        /\ Push(p) /\ inv[p].pc = "done" /\ inv[p].error = NoRepositorySelected
        /\ githubToken # NULL /\ selectedRepo = NULL
        /\ latestSubmission = NoSubmissionData

InFlight(p) == inv[p].pc \notin {"idle", "done"}

AuthOps == {"checkAuthStatus", "authenticate"}

\* C8: with no push in flight pushLoading is false; with no checkAuthStatus
\* or authenticate in flight, once one has ended, authLoading is false.
C8_LoadingReleased ==
    /\ (\A p \in Procs : Push(p) => ~InFlight(p)) => pushLoading = FALSE
    /\ (/\ \A p \in Procs : inv[p].op \in AuthOps => ~InFlight(p)
        /\ \E p \in Procs : inv[p].op \in AuthOps) => authLoading = FALSE

\* A push has ended by a thrown error after it set its loading flag.
C8_Witness ==
    \E p \in Procs :
        /\ Push(p) /\ inv[p].pc = "done" /\ inv[p].outcome = "threw"
        /\ inv[p].error = InvalidCharacter /\ inv[p].reqs = <<"GET">>
        /\ pushLoading = FALSE

\* C9 as stated: every invocation clears, on entry, the error its operation
\* left before; so once an invocation has ended, its error cell is null or
\* shows the failure of this invocation, never an earlier one's, a push that
\* fails a precondition check included.
C9_NoStaleError ==
    \A p \in Procs :
        /\ Push(p) /\ inv[p].pc = "done" /\ pushError # NULL
              => inv[p].outcome = "threw" /\ pushError = inv[p].error
        /\ inv[p].op = "authenticate" /\ inv[p].pc = "done" /\ authError # NULL
              => inv[p].outcome = "threw" /\ authError = AuthFailed(inv[p].error)
        /\ inv[p].op = "checkAuthStatus" /\ inv[p].pc = "done" /\ authError # NULL
              => authError \in {AuthCheckFailed, AuthSessionExpired}

FoundFreshToken(p) ==
    /\ FoundStoredToken(p)
    /\ inv[p].createdAt # Undefined
    /\ inv[p].at - inv[p].createdAt <= SevenDays

\* C11 as stated: on the fast path checkAuthStatus exposes the token and
\* issues no request to any remote endpoint.
C11_FastPathNoRemoteCall ==
    \A p \in Procs :
        FoundFreshToken(p) => githubToken = inv[p].tok /\ inv[p].reqs = <<>>

\* C11 amended: on the fast path checkAuthStatus exposes the token and
\* issues no identity check; its one remote request is the profile fetch.
C11_FastPathNoVerification ==
    \A p \in Procs :
        FoundFreshToken(p) =>
            /\ githubToken = inv[p].tok
            /\ inv[p].reqs = <<"user">>
            /\ inv[p].verifyStatus = 0
            /\ inv[p].pc \in {"fetch", "done"}

\* The fast path has ended with the token exposed and the profile fetched.
C11_Witness ==
    \E p \in Procs :
        /\ FoundFreshToken(p) /\ inv[p].pc = "done"
        /\ githubToken = inv[p].tok /\ inv[p].userStatus = 200
        /\ githubUser = UserOf(inv[p].tok)

Done(p) == inv[p].pc = "done"

\* C12 as stated: an invocation that got a 401 from any of its requests
\* (identity check, profile fetch, read, write) ends with the stored
\* credential cleared and githubToken null.
C12_Any401Invalidates ==
    \A p \in Procs :
        /\ Done(p)
        /\ 401 \in {inv[p].verifyStatus, inv[p].userStatus,
                    inv[p].readStatus, inv[p].writeStatus}
        => githubToken = NULL /\ store.githubToken = NULL

\* C12 amended: as C12 for the identity check, the read and the write; a
\* 401 on the profile fetch is not among them.
C12_401InvalidatesButProfile ==
    \A p \in Procs :
        /\ Done(p)
        /\ 401 \in {inv[p].verifyStatus, inv[p].readStatus, inv[p].writeStatus}
        => githubToken = NULL /\ store.githubToken = NULL

\* A revalidation answered 401 has ended with the credential cleared.
C12_Witness ==
    \E p \in Procs :
        /\ Done(p) /\ inv[p].verifyStatus = 401
        /\ inv[p].reqs = <<"verify">> /\ inv[p].tok # NULL
        /\ githubToken = NULL /\ store.githubToken = NULL

\* C13: a non-null githubToken is the token the credential store holds.
\* (The auth collaborator persists a new token with its answer, so none is
\* ever still being persisted.)
C13_TokenBackedByStore ==
    githubToken # NULL => store.githubToken = githubToken

\* C14: githubUser is non-null only if githubToken is non-null.
C14_NoProfileWithoutToken ==
    githubUser # NULL => githubToken # NULL

\* In this step authenticate p starts, or is answered with success = false.
AuthenticateStarts(p) ==
    CanStart(p) /\ inv'[p].op = "authenticate" /\ inv'[p].pc = "msg"

AuthenticateFails(p) ==
    inv[p].op = "authenticate" /\ inv[p].pc = "msg" /\ inv'[p].pc = "done"

\* C15: an authenticate answered success = false fails with the reported
\* error, shows it in authError, has authLoading false, and neither its
\* start nor its failure changes githubToken, githubUser or the store.
C15_FailedAuthenticateKeepsState ==
    [][\A p \in Procs :
          /\ AuthenticateStarts(p) => UNCHANGED <<githubToken, githubUser, store>>
          /\ AuthenticateFails(p) =>
                /\ inv'[p].outcome = "threw" /\ inv'[p].error = OAuthError
                /\ authError' = "Authentication failed: access_denied"
                /\ authLoading' = FALSE
                /\ UNCHANGED <<githubToken, githubUser, store>>]_vars

\* An authenticate has failed in a session that has a token and a profile.
C15_Witness ==
    \E p \in Procs :
        /\ inv[p].op = "authenticate" /\ Done(p) /\ inv[p].outcome = "threw"
        /\ githubToken # NULL /\ githubUser # NULL
        /\ store.githubToken = githubToken

\* checkAuthStatus p has read a stored token whose creation timestamp is
\* missing or more than 7 days old.
FoundStaleToken(p) ==
    /\ FoundStoredToken(p)
    /\ inv[p].createdAt = Undefined \/ inv[p].at - inv[p].createdAt > SevenDays

\* C16: a checkAuthStatus that found a stale token and whose identity check
\* was answered non-ok, or failed at transport level, ends with the store
\* cleared, githubToken and githubUser null, the session-expired message in
\* authError and authLoading false.
C16_RevalidationFailsClosed ==
    \A p \in Procs :
        /\ FoundStaleToken(p) /\ Done(p)
        /\ inv[p].verifyStatus \in {401, 500, NetErr}
        => /\ store = EmptyStore
           /\ githubToken = NULL /\ githubUser = NULL
           /\ authError = "Session expired. Please sign in again."
           /\ authLoading = FALSE

\* A revalidation that could not reach the identity endpoint has ended.
C16_Witness ==
    \E p \in Procs :
        /\ FoundStaleToken(p) /\ Done(p) /\ inv[p].verifyStatus = NetErr
        /\ store = EmptyStore /\ githubToken = NULL
        /\ authError = AuthSessionExpired

\* The states of a revalidation: before the profile fetch only the identity
\* check is issued and the stored timestamp is as read; at the profile fetch
\* the check has succeeded, the timestamp is the time taken after the check,
\* githubToken is the stored token and the stored token is what it was.
RevalidationStates(p) ==
    /\ inv[p].pc \in {"verify", "set", "clear"} =>
          /\ inv[p].reqs = <<"verify">>
          /\ store.tokenCreatedAt = inv[p].createdAt
    /\ inv[p].pc = "set" =>
          /\ IsOk(inv[p].verifyStatus)
          /\ inv[p].stamp >= inv[p].at /\ inv[p].stamp <= now
    /\ inv[p].pc = "fetch" =>
          /\ IsOk(inv[p].verifyStatus)
          /\ inv[p].reqs = <<"verify", "user">>
          /\ store.tokenCreatedAt = inv[p].stamp
          /\ githubToken = inv[p].tok
          /\ store.githubToken = inv[p].tok

\* The revalidation sets githubToken to the stored token only in the step
\* that follows the persisting of tokenCreatedAt and issues the profile fetch.
RevalidationExposure(p) ==
    inv[p].pc \in {"verify", "set"} /\ githubToken' # githubToken =>
        /\ inv[p].pc = "set" /\ inv'[p].pc = "fetch"
        /\ githubToken' = inv[p].tok

\* C17: a revalidation that succeeds persists tokenCreatedAt = now, then
\* sets githubToken to the stored token, then issues the profile fetch; the
\* token is not exposed before the identity check has succeeded, and the
\* stored token is left unchanged.
C17_RevalidationOrder ==
    /\ [](\A p \in Procs : FoundStaleToken(p) => RevalidationStates(p))
    /\ [][\A p \in Procs : FoundStaleToken(p) => RevalidationExposure(p)]_vars

\* A revalidated token is exposed, its new timestamp persisted, the profile
\* fetch in flight.
C17_Witness ==
    \E p \in Procs :
        /\ FoundStaleToken(p) /\ inv[p].pc = "fetch"
        /\ inv[p].createdAt = Now0 - SevenDays - 1
        /\ store.tokenCreatedAt = inv[p].stamp /\ inv[p].stamp > inv[p].at
        /\ githubToken = inv[p].tok /\ githubUser = NULL

\* C18: with no checkAuthStatus or authenticate in flight, a non-null
\* githubUser is the profile of the token in githubToken; and a failed
\* profile fetch surfaces no error in authError.
C18_ProfileMatchesToken ==
    /\ (\A p \in Procs : inv[p].op \in AuthOps => ~InFlight(p)) =>
          (githubUser # NULL => githubUser = UserOf(githubToken))
    /\ \A p \in Procs :
          Done(p) /\ inv[p].userStatus \in {401, 500, NetErr} => authError = NULL

\* C19: a push has issued a write without sha only if its read reported the
\* file as not found (404); no other non-success read leads to one.
C19_CreateOnlyWhenAbsent ==
    \A p \in Procs :
        Push(p) /\ Len(inv[p].reqs) = 2 /\ inv[p].put.sha = NoSha =>
            inv[p].readStatus = 404

\* In this step the write of push p is accepted.
WriteAccepts(p) ==
    /\ Push(p) /\ inv[p].pc = "write"
    /\ inv'[p].pc = "done" /\ IsOk(inv'[p].writeStatus)

\* C20: nothing defends a push against an invalidation that overlaps it. A
\* push whose read is answered (neither success nor 401) when githubToken is
\* already null still issues its write with the token it captured at entry,
\* and when that write is accepted the push ends with pushSuccess true while
\* githubToken stays null and the store stays as it was.
C20_StaleTokenWriteProceeds ==
    [][\A p \in Procs :
          /\ ReadAnswered(p) /\ githubToken = NULL
                /\ inv'[p].readStatus \in {403, 404, 500}
                /\ ~BtoaThrows(inv[p].sub.code) =>
                    /\ inv'[p].pc = "write"
                    /\ inv'[p].reqs = <<"GET", "PUT">>
                    /\ inv'[p].session = NULL
                    /\ inv'[p].tok = inv[p].tok /\ inv[p].tok # NULL
          /\ WriteAccepts(p) /\ githubToken = NULL =>
                    /\ pushSuccess' = TRUE
                    /\ inv'[p].outcome = "true"
                    /\ githubToken' = NULL
                    /\ store' = store]_vars

\* Invocation q has invalidated the session.
Invalidated(q) ==
    /\ inv[q].pc = "done"
    /\ \/ Push(q) /\ inv[q].error = PushSessionExpired
       \/ inv[q].op = "disconnect"
       \/ inv[q].op = "checkAuthStatus" /\ inv[q].verifyStatus = 401

\* A push issued its write after the other invocation had invalidated the
\* session, and ended with pushSuccess true while githubToken is null and
\* the store is cleared.
C20_Witness ==
    \E p, q \in Procs :
        /\ p # q /\ Invalidated(q)
        /\ Push(p) /\ inv[p].pc = "done" /\ inv[p].outcome = "true"
        /\ inv[p].reqs = <<"GET", "PUT">>
        /\ inv[p].tok # NULL /\ inv[p].session = NULL
        /\ remote[inv[p].put.path].content = inv[p].put.content
        /\ pushSuccess = TRUE /\ githubToken = NULL /\ store = EmptyStore

=============================================================================
